---- MODULE Spec2Model ----
(***************************************************************************)
(* A model of src/Vector.py: the class Vector, a 3D vector with a lazily   *)
(* cached magnitude.                                                       *)
(*                                                                         *)
(* Numbers.  A Python number is a record [t, n]: t is its type ("int" or   *)
(* "float") and the integer n stands for the value n / Scale.  Sums,       *)
(* differences and products of the coordinates the model uses are exact on *)
(* this grid, as they are in binary64; a quotient, a square root or a      *)
(* trigonometric value is rounded to the nearest grid point (ties to       *)
(* even), as binary64 rounds to its own grid.                              *)
(***************************************************************************)
EXTENDS Integers, Sequences, FiniteSets

\* ---------------------------------------------------------------- bounds
\* whole-number coordinates of the algebraic specification: -1..MaxCoord
MaxCoord == 1
\* coordinates of the geometric specification: 0..MaxGeom times the smallest
\* positive coordinate of the model
MaxGeom == 1
\* whole numbers the setters of the object specification assign: 1..MaxSet
MaxSet == 1
\* the longest operand list given to the variadic __add__ / __sub__
MaxOperands == 2

\* ---------------------------------------------------------------- numbers
\* grid points per unit: the float n / Scale is the integer n
Scale == 16
\* math.isclose's default rel_tol = 1e-09, as its reciprocal
RelTolInv == 1000000000
\* math.isclose's default abs_tol = 0.0
AbsTol == 0

Abs(n) == IF n < 0 THEN -n ELSE n

\* n / d for d > 0, rounded to the nearest integer, ties to even
RoundPos(n, d) ==
    LET q == n \div d
        r == n % d
    IN  IF 2 * r < d THEN q
        ELSE IF 2 * r > d THEN q + 1
        ELSE IF q % 2 = 0 THEN q ELSE q + 1

RoundDiv(n, d) ==
    LET s == IF (n < 0) = (d < 0) THEN 1 ELSE -1
    IN  s * RoundPos(Abs(n), Abs(d))

IntNum(k) == [t |-> "int", n |-> k * Scale]
Flt(n) == [t |-> "float", n |-> n]
BothInt(a, b) == a.t = "int" /\ b.t = "int"

\* float(x)
float(a) == [t |-> "float", n |-> a.n]

\* a + b, a - b, a * b, a / b, a ** 2 and -a of Python numbers
Plus(a, b) == [t |-> IF BothInt(a, b) THEN "int" ELSE "float", n |-> a.n + b.n]
Minus(a, b) == [t |-> IF BothInt(a, b) THEN "int" ELSE "float", n |-> a.n - b.n]
Times(a, b) ==
    [t |-> IF BothInt(a, b) THEN "int" ELSE "float", n |-> RoundDiv(a.n * b.n, Scale)]
Over(a, b) == [t |-> "float", n |-> RoundDiv(a.n * Scale, b.n)]
Squared(a) == Times(a, a)

\* the largest integer whose square is at most n
RECURSIVE isqrt(_)
isqrt(n) ==
    IF n < 2 THEN n
    ELSE LET s == 2 * isqrt(n \div 4)
         IN  IF (s + 1) * (s + 1) > n THEN s ELSE s + 1

\* math.sqrt(a) for a >= 0: the grid point nearest to the square root
sqrt(a) ==
    LET N == a.n * Scale
        r == isqrt(N)
    IN  Flt(IF N - r * r > r THEN r + 1 ELSE r)

\* math.isclose(a, b) with the default tolerances:
\*   a == b or |a - b| <= |rel_tol * b| or |a - b| <= |rel_tol * a| or |a - b| <= abs_tol
\* (for integers, d <= |b| * 1e-09 exactly when d <= |b| \div 10^9)
isclose(a, b) ==
    LET diff == Abs(a.n - b.n)
    IN  \/ a.n = b.n
        \/ diff <= Abs(b.n) \div RelTolInv
        \/ diff <= Abs(a.n) \div RelTolInv
        \/ diff <= AbsTol

\* max(lo, min(hi, a))
Clamp(lo, hi, a) ==
    LET m == IF a.n < hi.n THEN a ELSE hi
    IN  IF m.n > lo.n THEN m ELSE lo

\* math.radians(a) and math.degrees(a): a * (pi / 180) and a * (180 / pi),
\* with pi taken as 355 / 113
radians(a) == Flt(RoundDiv(a.n * 355, 113 * 180))
degrees(a) == Flt(RoundDiv(a.n * 113 * 180, 355))

\* math.cos and math.sin of the grid points of [0, 2 pi], rounded to the grid
CosTable ==
    <<16, 16, 16, 16, 16, 15, 15, 14, 14, 14, 13, 12, 12, 11, 10, 9,
      9, 8, 7, 6, 5, 4, 3, 2, 1, 0, -1, -2, -3, -4, -5, -6,
      -7, -8, -8, -9, -10, -11, -12, -12, -13, -13, -14, -14, -15, -15, -15, -16,
      -16, -16, -16, -16, -16, -16, -16, -15, -15, -15, -14, -14, -13, -13, -12, -11,
      -10, -10, -9, -8, -7, -6, -5, -4, -3, -2, -1, 0, 1, 2, 3, 4,
      5, 5, 6, 7, 8, 9, 10, 11, 11, 12, 13, 13, 14, 14, 15, 15,
      15, 16, 16, 16, 16, 16>>
SinTable ==
    <<0, 1, 2, 3, 4, 5, 6, 7, 8, 9, 9, 10, 11, 12, 12, 13,
      13, 14, 14, 15, 15, 15, 16, 16, 16, 16, 16, 16, 16, 16, 15, 15,
      15, 14, 14, 13, 12, 12, 11, 10, 10, 9, 8, 7, 6, 5, 4, 3,
      2, 1, 0, -1, -2, -3, -4, -5, -6, -7, -7, -8, -9, -10, -11, -11,
      -12, -13, -13, -14, -14, -15, -15, -15, -16, -16, -16, -16, -16, -16, -16, -16,
      -15, -15, -15, -14, -14, -13, -13, -12, -11, -11, -10, -9, -8, -7, -6, -5,
      -4, -4, -3, -2, -1, 0>>
\* math.acos of the grid points of [-1, 1], rounded to the grid
AcosTable ==
    <<50, 45, 42, 40, 39, 37, 36, 35, 34, 32, 31, 30, 29, 28, 27, 26,
      25, 24, 23, 22, 21, 20, 19, 18, 17, 16, 14, 13, 12, 10, 8, 6,
      0>>

cos(a) == Flt(CosTable[Abs(a.n) + 1])
sin(a) == Flt((IF a.n < 0 THEN -1 ELSE 1) * SinTable[Abs(a.n) + 1])
acos(a) == Flt(AcosTable[a.n + Scale + 1])

\* ---------------------------------------------------------------- Vector
\* An object is [id, x, y, z, mag]: id is its identity (0 for an object the
\* call itself constructs), x, y, z are _x, _y, _z and mag is _magnitude,
\* <<>> for None and <<m>> for the cached float m.
None == <<>>

\* raise ValueError(...)
ValueError == [exc |-> "ValueError"]
Raised(r) == "exc" \in DOMAIN r

\* Vector.__init__
Vector(x, y, z) ==
    [id |-> 0, x |-> float(x), y |-> float(y), z |-> float(z), mag |-> None]

\* an x setter that forgets to clear _magnitude
x_setter_keeps_cache(self, new_x) == [self EXCEPT !.x = float(new_x)]
\* the x, y and z setters
x_setter(self, new_x) == [self EXCEPT !.x = float(new_x), !.mag = None]
y_setter(self, new_y) == [self EXCEPT !.y = float(new_y), !.mag = None]
z_setter(self, new_z) == [self EXCEPT !.z = new_z, !.mag = None]

\* the value magnitude() returns
magnitude(self) ==
    IF self.mag = None
    THEN sqrt(Plus(Plus(Squared(self.x), Squared(self.y)), Squared(self.z)))
    ELSE self.mag[1]

\* the object after a call of magnitude(): the value is cached
Cached(self) == [self EXCEPT !.mag = <<magnitude(self)>>]

\* sum(...) of a sequence of numbers: ((0 + s[1]) + s[2]) + ...
RECURSIVE sum(_)
sum(s) ==
    IF s = <<>> THEN IntNum(0)
    ELSE Plus(sum(SubSeq(s, 1, Len(s) - 1)), s[Len(s)])

\* a __mul__ that returns self, not a new Vector, when the scalar is 1
__mul___returns_self(self, scalar) ==
    IF scalar.n = Scale THEN self
    ELSE Vector(Times(self.x, scalar), Times(self.y, scalar), Times(self.z, scalar))

__mul__(self, scalar) ==
    Vector(Times(self.x, scalar), Times(self.y, scalar), Times(self.z, scalar))

__rmul__(self, scalar) == __mul__(self, scalar)

\* an __add__ that adds its first operand only
__add___first_only(self, vectors) ==
    Vector(Plus(self.x, vectors[1].x), Plus(self.y, vectors[1].y), Plus(self.z, vectors[1].z))

__add__(self, vectors) ==
    Vector(Plus(self.x, sum([i \in 1..Len(vectors) |-> vectors[i].x])),
           Plus(self.y, sum([i \in 1..Len(vectors) |-> vectors[i].y])),
           Plus(self.z, sum([i \in 1..Len(vectors) |-> vectors[i].z])))

__sub__(self, vectors) ==
    Vector(Minus(self.x, sum([i \in 1..Len(vectors) |-> vectors[i].x])),
           Minus(self.y, sum([i \in 1..Len(vectors) |-> vectors[i].y])),
           Minus(self.z, sum([i \in 1..Len(vectors) |-> vectors[i].z])))

\* __eq__ with a Vector as its operand
__eq__(self, v) ==
    isclose(self.x, v.x) /\ isclose(self.y, v.y) /\ isclose(self.z, v.z)

normalize(self) ==
    LET mag == magnitude(self)
    IN  IF isclose(mag, Flt(0)) THEN ValueError
        ELSE __mul__(self, Over(IntNum(1), mag))

dot_product(self, v) ==
    Plus(Plus(Times(self.x, v.x), Times(self.y, v.y)), Times(self.z, v.z))

\* a cross product whose second coordinate has its sign reversed
cross_product_wrong_y(self, v) ==
    Vector(Minus(Times(self.y, v.z), Times(self.z, v.y)),
           Minus(Times(self.x, v.z), Times(self.z, v.x)),
           Minus(Times(self.x, v.y), Times(self.y, v.x)))

cross_product(self, v) ==
    Vector(Minus(Times(self.y, v.z), Times(self.z, v.y)),
           Minus(Times(self.z, v.x), Times(self.x, v.z)),
           Minus(Times(self.x, v.y), Times(self.y, v.x)))

triple_scalar_product(self, v, w) == dot_product(self, cross_product(v, w))

\* a triple vector product with v and w exchanged
triple_vector_product_swapped(self, v, w) ==
    __sub__(__mul__(w, dot_product(self, v)), <<__mul__(v, dot_product(self, w))>>)

triple_vector_product(self, v, w) ==
    __sub__(__mul__(v, dot_product(self, w)), <<__mul__(w, dot_product(self, v))>>)

\* a projection that divides by the squared magnitude of self, not of v
projection_checks_self(self, v) ==
    LET mag_v_sq == Squared(magnitude(self))
    IN  IF isclose(mag_v_sq, Flt(0)) THEN ValueError
        ELSE __mul__(v, Over(dot_product(self, v), mag_v_sq))

projection(self, v) ==
    LET mag_v_sq == Squared(magnitude(v))
    IN  IF isclose(mag_v_sq, Flt(0)) THEN ValueError
        ELSE __mul__(v, Over(dot_product(self, v), mag_v_sq))

rejection(self, v) ==
    LET p == projection(self, v)
    IN  IF Raised(p) THEN p ELSE __sub__(self, <<p>>)

\* a reflection that subtracts the projection once, not twice
reflect_once(self, normal) ==
    LET p == projection(self, normal)
    IN  IF Raised(p) THEN p ELSE __sub__(self, <<p>>)

reflect(self, normal) ==
    LET p == projection(self, normal)
    IN  IF Raised(p) THEN p ELSE __sub__(self, <<__rmul__(p, IntNum(2))>>)

angle_between(self, v, deg) ==
    LET mag_product == Times(magnitude(self), magnitude(v))
    IN  IF isclose(mag_product, Flt(0)) THEN ValueError
        ELSE LET cos_theta == Clamp(Flt(-Scale), Flt(Scale),
                                    Over(dot_product(self, v), mag_product))
                 theta == acos(cos_theta)
             IN  IF deg THEN degrees(theta) ELSE theta

rotate_around(self, axis, angle, deg) ==
    LET a == IF deg THEN radians(angle) ELSE angle
        k == normalize(axis)
    IN  IF Raised(k) THEN k
        ELSE __add__(
               __add__(__mul__(self, cos(a)),
                       <<__mul__(cross_product(k, self), sin(a))>>),
               <<__mul__(__mul__(k, dot_product(k, self)), Minus(IntNum(1), cos(a)))>>)

lerp(self, v, t) ==
    __add__(__mul__(self, Minus(IntNum(1), t)), <<__mul__(v, t)>>)

\* the string direction_cosine() returns for a vector of magnitude zero
Undefined == [str |-> "Undefined for zero vector"]

\* a direction_cosine that returns the coordinates of a zero vector, not the string
direction_cosine_no_sentinel(self) ==
    LET mag == magnitude(self)
    IN  IF isclose(mag, Flt(0)) THEN [tuple |-> <<self.x, self.y, self.z>>]
        ELSE [tuple |-> <<Over(self.x, mag), Over(self.y, mag), Over(self.z, mag)>>]

direction_cosine(self) ==
    LET mag == magnitude(self)
    IN  IF isclose(mag, Flt(0)) THEN Undefined
        ELSE [tuple |-> <<Over(self.x, mag), Over(self.y, mag), Over(self.z, mag)>>]

is_zero(self) == isclose(magnitude(self), Flt(0))

is_unit(self) == isclose(magnitude(self), Flt(Scale))

is_parallel(self, v) == is_zero(cross_product(self, v))

to_tuple(self) == <<self.x, self.y, self.z>>

\* ---------------------------------------------------------------- state
\* vec[i] is the Vector object the name v<i> is bound to; ret records the
\* last call: the method, the receiver and the operands as they were when
\* it was called, its other arguments, and what it returned or raised.
VARIABLES vec, ret
vars == <<vec, ret>>

\* the module-level instances v1 and v2
Objs == {1, 2}

\* the smallest positive coordinate of the model: its square is one grid step
Eps == isqrt(Scale)
One == Scale

\* what the caller of the object specification assigns through the setters
SetVals == {Flt(0)} \cup {IntNum(k) : k \in 1..MaxSet}
\* the scalars given to __mul__ / __rmul__, the t given to lerp
Scalars == {IntNum(2), Flt(One \div 2)}
\* the angles given to rotate_around: degrees, then radians
Degs == {IntNum(90)}
Rads == {Flt(2 * One)}
\* the coordinates the algebraic specification constructs its vectors with
Coords == {IntNum(k) : k \in -1..MaxCoord}
\* the coordinates the geometric specification constructs its vectors with
GeomCoords == {Flt(k * Eps) : k \in 0..MaxGeom}
\* the vectors the caller constructs as an operand of one call
Temps == {Vector(IntNum(1), IntNum(0), IntNum(0)),
          Vector(IntNum(0), IntNum(1), IntNum(0)),
          Vector(IntNum(0), IntNum(0), IntNum(1))}

Heap == {vec[i] : i \in Objs}

\* the operand lists of a variadic call
OperandLists(P) == UNION {[1..n -> P] : n \in 1..MaxOperands}

OutNone == [kind |-> "None", val |-> None]
OutVec(r) ==
    IF Raised(r) THEN [kind |-> r.exc, val |-> None] ELSE [kind |-> "Vector", val |-> r]
OutNum(r) ==
    IF Raised(r) THEN [kind |-> r.exc, val |-> None] ELSE [kind |-> "number", val |-> r]
OutBool(b) == [kind |-> "bool", val |-> b]
OutTuple(t) == [kind |-> "tuple", val |-> t]
OutCosine(r) ==
    IF Raised(r) THEN [kind |-> r.exc, val |-> None]
    ELSE IF "str" \in DOMAIN r THEN [kind |-> "str", val |-> r.str]
    ELSE OutTuple(r.tuple)

\* ret when the caller is between two statements
NoCall == [op |-> "", self |-> Vector(IntNum(0), IntNum(0), IntNum(0)),
           args |-> <<>>, extra |-> <<>>, out |-> OutNone]

\* a call of `op` on v<i> that returns `out`; `touched` are the objects whose
\* magnitude() the call has run
Call(op, i, args, extra, out, touched) ==
    /\ ret = NoCall
    /\ vec' = [j \in Objs |-> IF j \in touched THEN Cached(vec[j]) ELSE vec[j]]
    /\ ret' = [op |-> op, self |-> vec[i], args |-> args, extra |-> extra, out |-> out]

\* an assignment v<i>.x = val (y, z alike)
Set(op, i, val, obj) ==
    /\ ret = NoCall
    /\ vec' = [vec EXCEPT ![i] = obj]
    /\ ret' = [op |-> op, self |-> vec[i], args |-> <<>>, extra |-> <<val>>, out |-> OutNone]

\* the statement ends: the caller drops what the call returned or raised
Discard == ret # NoCall /\ ret' = NoCall /\ UNCHANGED vec

SetX == \E i \in Objs, val \in SetVals : Set("x.setter", i, val, x_setter(vec[i], val))
SetY == \E i \in Objs, val \in SetVals : Set("y.setter", i, val, y_setter(vec[i], val))
SetZ == \E i \in Objs, val \in SetVals : Set("z.setter", i, val, z_setter(vec[i], val))

CallMagnitude ==
    \E i \in Objs : Call("magnitude", i, <<>>, <<>>, OutNum(magnitude(vec[i])), {i})
CallNormalize ==
    \E i \in Objs : Call("normalize", i, <<>>, <<>>, OutVec(normalize(vec[i])), {i})
CallDotProduct(P) ==
    \E i \in Objs, v \in P :
        Call("dot_product", i, <<v>>, <<>>, OutNum(dot_product(vec[i], v)), {})
CallCrossProduct(P) ==
    \E i \in Objs, v \in P :
        Call("cross_product", i, <<v>>, <<>>, OutVec(cross_product(vec[i], v)), {})
CallTripleScalarProduct(P) ==
    \E i \in Objs, v \in Heap, w \in P :
        Call("triple_scalar_product", i, <<v, w>>, <<>>,
             OutNum(triple_scalar_product(vec[i], v, w)), {})
CallTripleVectorProduct(P) ==
    \E i \in Objs, v \in Heap, w \in P :
        Call("triple_vector_product", i, <<v, w>>, <<>>,
             OutVec(triple_vector_product(vec[i], v, w)), {})
CallProjection(P) ==
    \E i \in Objs, v \in P :
        Call("projection", i, <<v>>, <<>>, OutVec(projection(vec[i], v)), {v.id})
CallRejection(P) ==
    \E i \in Objs, v \in P :
        Call("rejection", i, <<v>>, <<>>, OutVec(rejection(vec[i], v)), {v.id})
CallReflect(P) ==
    \E i \in Objs, v \in P :
        Call("reflect", i, <<v>>, <<>>, OutVec(reflect(vec[i], v)), {v.id})
CallAngleBetween(P) ==
    \E i \in Objs, v \in P, deg \in BOOLEAN :
        Call("angle_between", i, <<v>>, <<deg>>,
             OutNum(angle_between(vec[i], v, deg)), {i, v.id})
CallRotateAround(P) ==
    \E i \in Objs, axis \in P, deg \in BOOLEAN :
        \E angle \in IF deg THEN Degs ELSE Rads :
            Call("rotate_around", i, <<axis>>, <<angle, deg>>,
                 OutVec(rotate_around(vec[i], axis, angle, deg)), {axis.id})
CallLerp(P) ==
    \E i \in Objs, v \in P, t \in Scalars :
        Call("lerp", i, <<v>>, <<t>>, OutVec(lerp(vec[i], v, t)), {})
CallDirectionCosine ==
    \E i \in Objs :
        Call("direction_cosine", i, <<>>, <<>>, OutCosine(direction_cosine(vec[i])), {i})
CallIsZero ==
    \E i \in Objs : Call("is_zero", i, <<>>, <<>>, OutBool(is_zero(vec[i])), {i})
CallIsUnit ==
    \E i \in Objs : Call("is_unit", i, <<>>, <<>>, OutBool(is_unit(vec[i])), {i})
CallIsParallel(P) ==
    \E i \in Objs, v \in P :
        Call("is_parallel", i, <<v>>, <<>>, OutBool(is_parallel(vec[i], v)), {})
CallToTuple ==
    \E i \in Objs : Call("to_tuple", i, <<>>, <<>>, OutTuple(to_tuple(vec[i])), {})
CallAdd ==
    \E i \in Objs, vectors \in OperandLists(Heap) :
        Call("__add__", i, vectors, <<>>, OutVec(__add__(vec[i], vectors)), {})
CallSub ==
    \E i \in Objs, vectors \in OperandLists(Heap) :
        Call("__sub__", i, vectors, <<>>, OutVec(__sub__(vec[i], vectors)), {})
CallMul ==
    \E i \in Objs, scalar \in Scalars :
        Call("__mul__", i, <<>>, <<scalar>>, OutVec(__mul__(vec[i], scalar)), {})
CallRMul ==
    \E i \in Objs, scalar \in Scalars :
        Call("__rmul__", i, <<>>, <<scalar>>, OutVec(__rmul__(vec[i], scalar)), {})
CallEq(P) ==
    \E i \in Objs, v \in P :
        Call("__eq__", i, <<v>>, <<>>, OutBool(__eq__(vec[i], v)), {})

\* ---------------------------------------------------------------- Spec
\* The object specification: v1 and v2 are constructed as Vector(), and the
\* caller assigns coordinates and calls every method, on and with v1 and v2.
Init ==
    /\ vec = [i \in Objs |-> [Vector(IntNum(0), IntNum(0), IntNum(0)) EXCEPT !.id = i]]
    /\ ret = NoCall

Next ==
    \/ SetX
    \/ SetY
    \/ SetZ
    \/ CallMagnitude
    \/ CallNormalize
    \/ CallDotProduct(Heap)
    \/ CallCrossProduct(Heap)
    \/ CallTripleScalarProduct(Heap)
    \/ CallTripleVectorProduct(Heap)
    \/ CallProjection(Heap)
    \/ CallRejection(Heap)
    \/ CallReflect(Heap)
    \/ CallAngleBetween(Heap)
    \/ CallRotateAround(Heap)
    \/ CallLerp(Heap)
    \/ CallDirectionCosine
    \/ CallIsZero
    \/ CallIsUnit
    \/ CallIsParallel(Heap)
    \/ CallToTuple
    \/ CallAdd
    \/ CallSub
    \/ CallMul
    \/ CallRMul
    \/ CallEq(Heap)
    \/ Discard

Spec == Init /\ [][Next]_vars

\* ---------------------------------------------------------------- SpecAlg
\* The algebraic specification: v1 and v2 are constructed with whole-number
\* coordinates, and the caller adds, subtracts, multiplies and reflects them,
\* with v1, v2 and the unit vectors it constructs as operands.
InitAlg ==
    /\ vec \in [Objs -> {[Vector(x, y, z) EXCEPT !.id = i] :
                           i \in Objs, x \in Coords, y \in Coords, z \in Coords}]
    /\ \A i \in Objs : vec[i].id = i
    /\ ret = NoCall

Pool == Heap \cup Temps

NextAlg ==
    \/ CallCrossProduct(Pool)
    \/ CallTripleVectorProduct(Pool)
    \/ CallReflect(Temps)
    \/ CallAdd
    \/ CallSub
    \/ Discard

SpecAlg == InitAlg /\ [][NextAlg]_vars

\* ---------------------------------------------------------------- SpecGeom
\* The geometric specification: v1 and v2 are constructed with coordinates
\* that are zero, the smallest the model has, or whole, and the caller applies
\* the operations that test a magnitude against zero.
InitGeom ==
    /\ vec \in [Objs -> {[Vector(x, y, z) EXCEPT !.id = i] :
                           i \in Objs, x \in GeomCoords, y \in GeomCoords, z \in GeomCoords}]
    /\ \A i \in Objs : vec[i].id = i
    /\ ret = NoCall

NextGeom ==
    \/ CallMagnitude
    \/ CallNormalize
    \/ CallProjection(Heap)
    \/ CallRejection(Heap)
    \/ CallReflect(Heap)
    \/ CallAngleBetween(Heap)
    \/ CallRotateAround(Heap)
    \/ CallDirectionCosine
    \/ CallIsZero
    \/ CallIsUnit
    \/ CallIsParallel(Heap)
    \/ Discard

SpecGeom == InitGeom /\ [][NextGeom]_vars

\* ---------------------------------------------------------------- properties
\* the Euclidean norm of an object's current coordinates, computed afresh
Norm(o) == sqrt(Plus(Plus(Squared(o.x), Squared(o.y)), Squared(o.z)))
\* the zero vector: every coordinate is zero
IsZeroVec(o) == o.x.n = 0 /\ o.y.n = 0 /\ o.z.n = 0
\* the last call was of method op
Called(op) == ret.op = op
Setters == {"x.setter", "y.setter", "z.setter"}
SameCoords(a, b) == a.x = b.x /\ a.y = b.y /\ a.z = b.z
RECURSIVE Total(_)
Total(s) == IF s = <<>> THEN 0 ELSE s[1] + Total(Tail(s))

\* C1: the cached magnitude of every object is absent or equals the norm of
\* its current coordinates, and magnitude() returns the norm of the current
\* coordinates, never a value cached before a setter call.
C1_CacheIsNorm ==
    /\ \A i \in Objs : vec[i].mag = None \/ vec[i].mag = <<Norm(vec[i])>>
    /\ Called("magnitude") =>
           /\ ret.out.val = Norm(vec[ret.self.id])
           /\ vec[ret.self.id].mag = <<ret.out.val>>

\* C1 witness: a setter has been called on an object whose cached magnitude
\* is not the norm of the new coordinates, and the cache is gone.
C1_Witness ==
    /\ Called("x.setter")
    /\ ret.self.mag # None
    /\ ret.self.mag # <<Norm(vec[ret.self.id])>>
    /\ vec[ret.self.id].mag = None

\* C2: every stored coordinate x, y, z of every object is a float, whatever
\* the constructor and the setters were given.
C2_CoordsAreFloat ==
    \A i \in Objs : vec[i].x.t = "float" /\ vec[i].y.t = "float" /\ vec[i].z.t = "float"

\* C3: normalize, projection, rejection, reflect, angle_between and
\* rotate_around raise ValueError, and return nothing, exactly when the
\* vector whose magnitude they divide by is the zero vector.
C3_RaiseIffZero ==
    /\ Called("normalize") =>
           (ret.out.kind = IF IsZeroVec(ret.self) THEN "ValueError" ELSE "Vector")
    /\ ret.op \in {"projection", "rejection", "reflect", "rotate_around"} =>
           (ret.out.kind = IF IsZeroVec(ret.args[1]) THEN "ValueError" ELSE "Vector")
    /\ Called("angle_between") =>
           (ret.out.kind = IF IsZeroVec(ret.self) \/ IsZeroVec(ret.args[1])
                           THEN "ValueError" ELSE "number")
    /\ ret.out.kind = "ValueError" => ret.out.val = None

\* C3 witness: rotate_around has raised on a zero axis, called on a vector
\* that is not zero.
C3_Witness ==
    /\ Called("rotate_around")
    /\ IsZeroVec(ret.args[1])
    /\ ~IsZeroVec(ret.self)
    /\ ret.out.kind = "ValueError"

\* C4: direction_cosine() returns the string "Undefined for zero vector" on
\* a vector of magnitude zero and the triple (x/|v|, y/|v|, z/|v|) on any
\* other, and never raises.
C4_DirectionCosine ==
    Called("direction_cosine") =>
        LET v == ret.self
            m == Norm(v)
        IN  IF m.n = 0
            THEN ret.out = [kind |-> "str", val |-> "Undefined for zero vector"]
            ELSE ret.out = [kind |-> "tuple",
                            val |-> <<Over(v.x, m), Over(v.y, m), Over(v.z, m)>>]

\* C4 witness: direction_cosine() has returned the sentinel for a zero vector.
C4_Witness ==
    /\ Called("direction_cosine")
    /\ Norm(ret.self).n = 0
    /\ ret.out.kind = "str"

\* C5: after any call other than a setter, the receiver and every operand
\* still have the identity and the coordinates they had when the call was
\* made (only their cached magnitude may have changed), and a Vector the call
\* returned is none of them.
C5_Frame ==
    (ret.op # "" /\ ret.op \notin Setters) =>
        LET passed == {ret.self} \cup {ret.args[k] : k \in 1..Len(ret.args)}
        IN  /\ \A o \in passed : vec[o.id].id = o.id /\ SameCoords(vec[o.id], o)
            /\ ret.out.kind = "Vector" => \A o \in passed : ret.out.val.id # o.id

\* C5 witness: projection has returned a Vector and has filled the cache of
\* its operand, which had none.
C5_Witness ==
    /\ Called("projection")
    /\ ret.out.kind = "Vector"
    /\ ret.args[1].mag = None
    /\ vec[ret.args[1].id].mag # None

\* the magnitudes a zero check with a tolerance must take for zero: at least
\* the smallest positive magnitude the model has
Tol == Eps

\* C6: normalize() raises ValueError, and is_zero() returns True, for every
\* vector whose magnitude is within the tolerance of zero, exactly zero or not.
C6_ToleranceZeroCheck ==
    /\ (Called("normalize") /\ Norm(ret.self).n <= Tol) => ret.out.kind = "ValueError"
    /\ (Called("is_zero") /\ Norm(ret.self).n <= Tol) => ret.out.val = TRUE

\* C7: __add__ returns self plus the coordinate-wise sum of its operands and
\* __sub__ self minus that sum; v + Vector(0, 0, 0) == v and
\* v - v == Vector(0, 0, 0).
C7_AddSub ==
    LET n == Len(ret.args)
        sx == Total([k \in 1..n |-> ret.args[k].x.n])
        sy == Total([k \in 1..n |-> ret.args[k].y.n])
        sz == Total([k \in 1..n |-> ret.args[k].z.n])
        v == ret.self
    IN  /\ Called("__add__") =>
               /\ ret.out.kind = "Vector"
               /\ to_tuple(ret.out.val) = <<Flt(v.x.n + sx), Flt(v.y.n + sy), Flt(v.z.n + sz)>>
               /\ (n = 1 /\ IsZeroVec(ret.args[1])) => __eq__(ret.out.val, v)
        /\ Called("__sub__") =>
               /\ ret.out.kind = "Vector"
               /\ to_tuple(ret.out.val) = <<Flt(v.x.n - sx), Flt(v.y.n - sy), Flt(v.z.n - sz)>>
               /\ (n = 1 /\ ret.args[1].id = v.id) =>
                      __eq__(ret.out.val, Vector(IntNum(0), IntNum(0), IntNum(0)))

\* C7 witness: __add__ has been given two operands that are not zero.
C7_Witness ==
    /\ Called("__add__")
    /\ Len(ret.args) = 2
    /\ ~IsZeroVec(ret.args[1])
    /\ ~IsZeroVec(ret.args[2])
    /\ ret.args[1].id # ret.args[2].id

\* C8: a.triple_vector_product(v, w) == a.cross_product(v.cross_product(w)).
C8_TripleVector ==
    Called("triple_vector_product") =>
        /\ ret.out.kind = "Vector"
        /\ __eq__(ret.out.val,
                  cross_product(ret.self, cross_product(ret.args[1], ret.args[2])))

\* C8 witness: a triple vector product that is not the zero vector.
C8_Witness ==
    /\ Called("triple_vector_product")
    /\ ~IsZeroVec(ret.out.val)
    /\ ret.self.id # ret.args[1].id

\* a unit normal: the squares of its coordinates sum to one
IsUnitVec(o) == Plus(Plus(Squared(o.x), Squared(o.y)), Squared(o.z)).n = One

\* C9: for a unit normal n, v.reflect(n) is v - 2 * (v . n) * n and
\* v.reflect(n).reflect(n) == v.
C9_ReflectTwice ==
    (Called("reflect") /\ IsUnitVec(ret.args[1])) =>
        LET v == ret.self
            n == ret.args[1]
            d == v.x.n * n.x.n + v.y.n * n.y.n + v.z.n * n.z.n
        IN  /\ ret.out.kind = "Vector"
            /\ to_tuple(ret.out.val) =
                   <<Flt(v.x.n - (2 * d * n.x.n) \div (Scale * Scale)),
                     Flt(v.y.n - (2 * d * n.y.n) \div (Scale * Scale)),
                     Flt(v.z.n - (2 * d * n.z.n) \div (Scale * Scale))>>
            /\ __eq__(reflect(ret.out.val, n), v)

\* C9 witness: a reflection across a unit normal that moves the vector.
C9_Witness ==
    /\ Called("reflect")
    /\ IsUnitVec(ret.args[1])
    /\ ret.out.kind = "Vector"
    /\ ~__eq__(ret.out.val, ret.self)

\* C10: v.cross_product(w) has the coordinates
\* (y1*z2 - z1*y2, z1*x2 - x1*z2, x1*y2 - y1*x2), equals w.cross_product(v)
\* times -1, and Vector(1,0,0).cross_product(Vector(0,1,0)) == Vector(0,0,1).
C10_CrossProduct ==
    Called("cross_product") =>
        LET v == ret.self
            w == ret.args[1]
        IN  /\ ret.out.kind = "Vector"
            /\ to_tuple(ret.out.val) =
                   <<Flt((v.y.n * w.z.n - v.z.n * w.y.n) \div Scale),
                     Flt((v.z.n * w.x.n - v.x.n * w.z.n) \div Scale),
                     Flt((v.x.n * w.y.n - v.y.n * w.x.n) \div Scale)>>
            /\ __eq__(ret.out.val, __mul__(cross_product(w, v), IntNum(-1)))
            /\ (/\ to_tuple(v) = <<Flt(One), Flt(0), Flt(0)>>
                /\ to_tuple(w) = <<Flt(0), Flt(One), Flt(0)>>) =>
                   __eq__(ret.out.val, Vector(IntNum(0), IntNum(0), IntNum(1)))

\* C10 witness: Vector(1,0,0).cross_product(Vector(0,1,0)) has been computed.
C10_Witness ==
    /\ Called("cross_product")
    /\ to_tuple(ret.self) = <<Flt(One), Flt(0), Flt(0)>>
    /\ to_tuple(ret.args[1]) = <<Flt(0), Flt(One), Flt(0)>>
    /\ to_tuple(ret.out.val) = <<Flt(0), Flt(0), Flt(One)>>
====
